---- MODULE Spec2Model ----
(***************************************************************************)
(* Model of geocode.py: the batch geocoding runner main() and the remote   *)
(* lookup geocode_address().  One run of the script is one behaviour.      *)
(***************************************************************************)
EXTENDS Integers, Sequences, FiniteSets, TLC

\* ---------------------------------------------------------------- bounds
MaxRows == 3

\* ------------------------------------------------------- value universes
Ids == {"a", "b"}
Addresses == {"x", "y"}
Coords == {"c1", "c2"}
Durations == {0, 1}
Columns == {"Id", "Address"}
NoResult == "None"
Fatal == "Fatal"
SLEEP_SECONDS == 1

VARIABLES
    input,      \* the file at INPUT_CSV: readable?, header columns, data rows
    outfile,    \* the file at OUTPUT_JSON: untouched ("prior") or written
    pc,         \* position of main()
    libraries,  \* list(reader)
    i,          \* loop index of enumerate(libraries)
    coords,     \* the dict coords
    calls,      \* addresses passed to urlopen, in order of issue
    callTimes,  \* clock value at which each request was issued
    results,    \* outcome of each geocode_address call, in order
    inflight,   \* number of requests issued and not yet answered
    sleeps,     \* number of time.sleep(1) calls executed
    trace,      \* order of "lookup" and "sleep" events
    clock,      \* elapsed time units
    latency,    \* time units the remote service takes to answer during this run
    nWrites,    \* number of json.dump calls executed
    stdout      \* printed lines, as [kind, n]

vars == <<input, outfile, pc, libraries, i, coords, calls, callTimes, results,
          inflight, sleeps, trace, clock, latency, nWrites, stdout>>

\* ------------------------------------------------------------- helpers
EmptyMap == [x \in {} |-> "c1"]

Rows == [Id : Ids, Address : Addresses]

RowSeqs == UNION {[1..n -> Rows] : n \in 0..MaxRows}

Last(s) == s[Len(s)]

Line(kind, n) == [kind |-> kind, n |-> n]

\* coords[lib_id] = result
PutFirstWins(m, k, v) == [x \in DOMAIN m \cup {k} |-> IF x \in DOMAIN m THEN m[x] ELSE v]

PutAndForget(m, k, v) == [x \in {k} |-> v]

Put(m, k, v) == [x \in DOMAIN m \cup {k} |-> IF x = k THEN v ELSE m[x]]

\* if i < len(libraries) - 1
GateOpenAfterLast(idx, n) == idx < n

GateOpenSkipsOne(idx, n) == idx < n - 2

GateOpen(idx, n) == idx < n - 1

\* failed = len(libraries) - len(coords)
Failed(n, m) == n - Cardinality(DOMAIN m)

\* ---------------------------------------------------------------- Init
Init ==
    /\ input \in [readable : BOOLEAN, header : SUBSET Columns, rows : RowSeqs]
    /\ outfile = [state |-> "prior", map |-> EmptyMap]
    /\ pc = "start"
    /\ libraries = <<>>
    /\ i = 0
    /\ coords = EmptyMap
    /\ calls = <<>>
    /\ callTimes = <<>>
    /\ results = <<>>
    /\ inflight = 0
    /\ sleeps = 0
    /\ trace = <<>>
    /\ clock = 0
    /\ latency \in Durations
    /\ nWrites = 0
    /\ stdout = <<>>

\* -------------------------------------------------------------- actions
\* open(INPUT_CSV) ... libraries = list(reader); print("Geocoding ...")
ReadInputRejectsEmpty ==
    /\ pc = "start"
    /\ IF input.readable /\ Len(input.rows) > 0
          THEN /\ libraries' = input.rows
               /\ stdout' = Append(stdout, Line("Geocoding", Len(input.rows)))
               /\ pc' = "loop"
          ELSE /\ pc' = "error"
               /\ UNCHANGED <<libraries, stdout>>
    /\ UNCHANGED <<latency, input, outfile, i, coords, calls, callTimes, results,
                   inflight, sleeps, trace, clock, nWrites>>

ReadInput ==
    /\ pc = "start"
    /\ IF input.readable
          THEN /\ libraries' = input.rows
               /\ stdout' = Append(stdout, Line("Geocoding", Len(input.rows)))
               /\ pc' = "loop"
          ELSE /\ pc' = "error"
               /\ UNCHANGED <<libraries, stdout>>
    /\ UNCHANGED <<latency, input, outfile, i, coords, calls, callTimes, results,
                   inflight, sleeps, trace, clock, nWrites>>

\* for i, lib in enumerate(libraries): lib["Id"], lib["Address"], progress print
LoopHead ==
    /\ pc = "loop"
    /\ i < Len(libraries)
    /\ input.header = Columns
    /\ stdout' = Append(stdout, Line("Progress", i + 1))
    /\ pc' = "call"
    /\ UNCHANGED <<latency, input, outfile, libraries, i, coords, calls, callTimes,
                   results, inflight, sleeps, trace, clock, nWrites>>

\* lib["Id"] or lib["Address"] raises KeyError: the column is not in the header
LoopKeyError ==
    /\ pc = "loop"
    /\ i < Len(libraries)
    /\ input.header # Columns
    /\ pc' = "error"
    /\ UNCHANGED <<latency, input, outfile, libraries, i, coords, calls, callTimes,
                   results, inflight, sleeps, trace, clock, nWrites, stdout>>

\* the for loop is exhausted
LoopExit ==
    /\ pc = "loop"
    /\ i >= Len(libraries)
    /\ pc' = "write"
    /\ UNCHANGED <<latency, input, outfile, libraries, i, coords, calls, callTimes,
                   results, inflight, sleeps, trace, clock, nWrites, stdout>>

\* geocode_address(address): the request is sent by urlopen(req)
Request ==
    /\ pc = "call"
    /\ calls' = Append(calls, libraries[i + 1].Address)
    /\ callTimes' = Append(callTimes, clock)
    /\ trace' = Append(trace, "lookup")
    /\ inflight' = inflight + 1
    /\ pc' = "await"
    /\ UNCHANGED <<latency, input, outfile, libraries, i, coords, results, sleeps,
                   clock, nWrites, stdout>>

\* the response is a non-empty list: result is a coordinate, coords[lib_id] = result
LookupSome ==
    /\ pc = "await"
    /\ clock' = clock + latency
    /\ \E c \in Coords :
          /\ results' = Append(results, c)
          /\ coords' = Put(coords, libraries[i + 1].Id, c)
    /\ inflight' = inflight - 1
    /\ stdout' = Append(stdout, Line("OK", i + 1))
    /\ pc' = "gate"
    /\ UNCHANGED <<latency, input, outfile, libraries, i, calls, callTimes, sleeps,
                   trace, nWrites>>

\* the response is an empty list: result is None, "FAILED - no results"
LookupNoneRetries ==
    /\ pc = "await"
    /\ clock' = clock + latency
    /\ results' = Append(results, NoResult)
    /\ inflight' = inflight - 1
    /\ stdout' = Append(stdout, Line("FAILED", i + 1))
    /\ pc' = IF Len(results) < MaxRows + 2 THEN "call" ELSE "gate"
    /\ UNCHANGED <<latency, input, outfile, libraries, i, coords, calls, callTimes,
                   sleeps, trace, nWrites>>

LookupNoneDrops ==
    /\ pc = "await"
    /\ clock' = clock + latency
    /\ results' = Append(results, NoResult)
    /\ inflight' = inflight - 1
    /\ coords' = [x \in DOMAIN coords \ {libraries[i + 1].Id} |-> coords[x]]
    /\ stdout' = Append(stdout, Line("FAILED", i + 1))
    /\ pc' = "gate"
    /\ UNCHANGED <<latency, input, outfile, libraries, i, calls, callTimes,
                   sleeps, trace, nWrites>>

LookupNone ==
    /\ pc = "await"
    /\ clock' = clock + latency
    /\ results' = Append(results, NoResult)
    /\ inflight' = inflight - 1
    /\ stdout' = Append(stdout, Line("FAILED", i + 1))
    /\ pc' = "gate"
    /\ UNCHANGED <<latency, input, outfile, libraries, i, coords, calls, callTimes,
                   sleeps, trace, nWrites>>

\* urlopen / json.loads / data[0]["lat"] raises: nothing in main() catches it
LookupFatalSwallowed ==
    /\ pc = "await"
    /\ clock' = clock + latency
    /\ results' = Append(results, Fatal)
    /\ inflight' = inflight - 1
    /\ pc' = "gate"
    /\ UNCHANGED <<latency, input, outfile, libraries, i, coords, calls, callTimes,
                   sleeps, trace, nWrites, stdout>>

LookupFatal ==
    /\ pc = "await"
    /\ clock' = clock + latency
    /\ results' = Append(results, Fatal)
    /\ inflight' = inflight - 1
    /\ pc' = "error"
    /\ UNCHANGED <<latency, input, outfile, libraries, i, coords, calls, callTimes,
                   sleeps, trace, nWrites, stdout>>

\* if i < len(libraries) - 1: time.sleep(1); then the next iteration
Sleep ==
    /\ pc = "gate"
    /\ GateOpen(i, Len(libraries))
    /\ sleeps' = sleeps + 1
    /\ clock' = clock + SLEEP_SECONDS
    /\ trace' = Append(trace, "sleep")
    /\ i' = i + 1
    /\ pc' = "loop"
    /\ UNCHANGED <<latency, input, outfile, libraries, coords, calls, callTimes,
                   results, inflight, nWrites, stdout>>

\* the condition is false: no sleep; then the next iteration
SkipSleep ==
    /\ pc = "gate"
    /\ ~GateOpen(i, Len(libraries))
    /\ i' = i + 1
    /\ pc' = "loop"
    /\ UNCHANGED <<latency, input, outfile, libraries, coords, calls, callTimes,
                   results, inflight, sleeps, trace, clock, nWrites, stdout>>

\* open(OUTPUT_JSON, "w"); json.dump(coords, f, indent=2)
WriteOutput ==
    /\ pc = "write"
    /\ outfile' = [state |-> "written", map |-> coords]
    /\ nWrites' = nWrites + 1
    /\ pc' = "summary"
    /\ UNCHANGED <<latency, input, libraries, i, coords, calls, callTimes, results,
                   inflight, sleeps, trace, clock, stdout>>

\* print("Wrote ..."); failed = ...; if failed: print("Warning: ...")
Summary ==
    /\ pc = "summary"
    /\ LET failed == Failed(Len(libraries), coords)
           wrote == Append(stdout, Line("Wrote", Cardinality(DOMAIN coords)))
       IN stdout' = IF failed # 0 THEN Append(wrote, Line("Warning", failed))
                                  ELSE wrote
    /\ pc' = "done"
    /\ UNCHANGED <<latency, input, outfile, libraries, i, coords, calls, callTimes,
                   results, inflight, sleeps, trace, clock, nWrites>>

Next ==
    \/ ReadInput
    \/ LoopHead
    \/ LoopKeyError
    \/ LoopExit
    \/ Request
    \/ LookupSome
    \/ LookupNone
    \/ LookupFatal
    \/ Sleep
    \/ SkipSleep
    \/ WriteOutput
    \/ Summary

Spec == Init /\ [][Next]_vars

\* main() is one thread that the interpreter keeps running until it returns or raises
FairSpec == Spec /\ WF_vars(Next)

\* ------------------------------------------------- vocabulary of the claims
N == Len(input.rows)

RowIds == {input.rows[k].Id : k \in 1..N}

DistinctIds == \A j, k \in 1..N : j # k => input.rows[j].Id # input.rows[k].Id

Hits == {k \in 1..Len(results) : results[k] \in Coords}

Misses == {k \in 1..Len(results) : results[k] = NoResult}

AllSome == Len(results) = N /\ Hits = 1..N

Written == outfile.state = "written"

Printed(kind) == {stdout[k].n : k \in {j \in 1..Len(stdout) : stdout[j].kind = kind}}

ValidInput == input.readable /\ input.header = Columns

\* rows with this Id whose lookup returned a coordinate
HitsOf(id) == {k \in Hits : input.rows[k].Id = id}

MaxOf(S) == CHOOSE m \in S : \A k \in S : k <= m

\* ---------------------------------------------------------------------- C1
\* C1 (as stated): when every lookup returns a coordinate, the written map has
\* exactly N entries, one per input row, keyed by the rows' Ids.
C1_Original ==
    (pc = "done" /\ AllSome) =>
        /\ Written
        /\ DOMAIN outfile.map = RowIds
        /\ Cardinality(DOMAIN outfile.map) = N

\* C1 (amended): when every lookup returns a coordinate, the written map's keys
\* are exactly the Ids of the input rows, one entry per distinct Id; it has
\* exactly N entries when the Ids are pairwise distinct.
C1_OneEntryPerDistinctId ==
    (pc = "done" /\ AllSome) =>
        /\ Written
        /\ DOMAIN outfile.map = RowIds
        /\ Cardinality(DOMAIN outfile.map) = Cardinality(RowIds)
        /\ DistinctIds => Cardinality(DOMAIN outfile.map) = N

C1_Witness ==
    pc = "done" /\ AllSome /\ N = 2 /\ DistinctIds /\ Cardinality(DOMAIN outfile.map) = 2

\* ---------------------------------------------------------------------- C2
\* C2: if the lookup returns None exactly for the rows of S, the written map has
\* N - |S| entries, the warning reports |S|, and there is no warning when S is
\* empty.
C2_CountsMatchMisses ==
    (pc = "done") =>
        /\ Written
        /\ Cardinality(DOMAIN outfile.map) = N - Cardinality(Misses)
        /\ Printed("Warning") = IF Misses = {} THEN {} ELSE {Cardinality(Misses)}

\* ---------------------------------------------------------------------- C3
NoSleepAtEnds ==
    trace # <<>> => trace[1] = "lookup" /\ Last(trace) = "lookup"

\* C3 (as stated): a completed run over N rows sleeps exactly N - 1 times, never
\* before the first or after the last lookup.
C3_Original ==
    (pc = "done") => sleeps = N - 1 /\ NoSleepAtEnds

\* C3 (amended): a completed run over N rows sleeps exactly N - 1 times when
\* N >= 1 and not at all when N = 0, never before the first or after the last
\* lookup.
C3_SleepsBetweenLookups ==
    (pc = "done") =>
        /\ sleeps = IF N = 0 THEN 0 ELSE N - 1
        /\ Cardinality({k \in 1..Len(trace) : trace[k] = "sleep"}) = sleeps
        /\ NoSleepAtEnds

C3_Witness ==
    pc = "done" /\ N = 3 /\ sleeps = 2 /\ Len(calls) = 3

\* ---------------------------------------------------------------------- C4
\* C4: between two consecutive lookups exactly one sleep of one time unit is
\* executed, whatever the lookups' outcomes, so two requests are never issued
\* less than one time unit apart; at most one request is in flight.
C4_OneDelayBetweenCalls ==
    /\ inflight \in {0, 1}
    /\ \A k \in 1..Len(trace) - 1 :
          /\ trace[k] = "lookup" => trace[k + 1] = "sleep"
          /\ trace[k] = "sleep" => trace[k + 1] = "lookup"
    /\ \A k \in 1..Len(callTimes) - 1 :
          callTimes[k + 1] - callTimes[k] >= SLEEP_SECONDS
    /\ Len(calls) > 0 => sleeps \in {Len(calls) - 1, Len(calls)}

C4_Witness ==
    /\ Len(calls) = 3
    /\ results[1] = NoResult
    /\ results[2] \in Coords
    /\ callTimes[2] - callTimes[1] = SLEEP_SECONDS
    /\ inflight = 1

\* ---------------------------------------------------------------------- C5
\* C5: a fatal lookup at record k ends the run in the error state at that
\* record: no later lookup, no retry, no further sleep, and the output file is
\* left untouched.
C5_FatalLookupStopsRun ==
    \A k \in 1..Len(results) :
        results[k] = Fatal =>
            /\ pc = "error"
            /\ k = Len(results)
            /\ Len(calls) = k
            /\ i = k - 1
            /\ sleeps = k - 1
            /\ Last(trace) = "lookup"
            /\ inflight = 0
            /\ outfile.state = "prior"
            /\ nWrites = 0

C5_Witness ==
    /\ pc = "error"
    /\ Len(results) = 2
    /\ results[1] \in Coords
    /\ results[2] = Fatal
    /\ N = 3
    /\ DOMAIN coords # {}
    /\ outfile.state = "prior"

\* ---------------------------------------------------------------------- C6
\* C6: if the input file is unreadable or its header lacks Id or Address, the
\* run aborts (also with zero data rows): no lookup is issued and the output
\* file is not written.
C6_BadInputAborts ==
    ~ValidInput =>
        /\ calls = <<>>
        /\ outfile.state = "prior"
        /\ pc \in {"start", "loop", "error"}

\* ---------------------------------------------------------------------- C7
SerializedOnceAtEnd ==
    /\ nWrites' # nWrites =>
          /\ nWrites = 0
          /\ nWrites' = 1
          /\ i = Len(libraries)
          /\ outfile'.map = coords
    /\ pc' = "done" => nWrites' = 1
    /\ outfile' # outfile => nWrites' # nWrites

\* C7 (as stated): an entry of coords, once present, is never removed and its
\* value never changed by a later iteration, duplicate Ids included; the map is
\* serialized exactly once, after the last iteration.
C7_Original ==
    [][ /\ \A id \in DOMAIN coords :
              id \in DOMAIN coords' /\ coords'[id] = coords[id]
        /\ SerializedOnceAtEnd ]_vars

\* C7 (amended): an entry of coords, once present, is never removed; its value
\* changes only when a later row carries the same Id and its lookup returns a
\* coordinate, which then replaces the value; the map is serialized exactly
\* once, after the last iteration.
C7_EntriesNeverRemoved ==
    [][ /\ \A id \in DOMAIN coords :
              /\ id \in DOMAIN coords'
              /\ coords'[id] # coords[id] =>
                    /\ pc = "await"
                    /\ libraries[i + 1].Id = id
                    /\ Len(results') = Len(results) + 1
                    /\ Last(results') \in Coords
                    /\ coords'[id] = Last(results')
        /\ SerializedOnceAtEnd ]_vars

C7_Witness ==
    /\ pc = "done"
    /\ N = 3
    /\ input.rows[1].Id = input.rows[3].Id
    /\ input.rows[2].Id # input.rows[1].Id
    /\ results[1] \in Coords
    /\ results[2] = NoResult
    /\ results[3] \in Coords
    /\ results[3] # results[1]
    /\ nWrites = 1

\* ---------------------------------------------------------------------- C8
\* C8: in a run without fatal error the lookup is invoked once per record, in
\* input order, with no retry after an empty result; an empty result never
\* aborts the run, which goes on to the next record; the run writes the output
\* and finishes.
C8_OneLookupPerRecordInOrder ==
    /\ [](/\ Len(calls) <= N
          /\ \A k \in 1..Len(calls) : calls[k] = input.rows[k].Address
          /\ Len(calls) \in {i, i + 1}
          /\ pc = "done" => Len(calls) = N /\ Len(results) = N /\ Written)
    /\ [][(pc = "await" /\ Len(results') > Len(results)
                        /\ Last(results') = NoResult)
             => (pc' = "gate" /\ calls' = calls /\ coords' = coords)]_vars
    /\ [][pc = "gate" => (pc' = "loop" /\ i' = i + 1)]_vars
    /\ <>(pc = "error" \/ (pc = "done" /\ Written))
    /\ [](pc = "error" => (~ValidInput \/ (results # <<>> /\ Last(results) = Fatal)))

C8_Witness ==
    /\ pc = "done"
    /\ N = 3
    /\ results[1] = NoResult
    /\ results[2] \in Coords
    /\ results[3] = NoResult
    /\ calls[1] # calls[2]
    /\ Written

\* ---------------------------------------------------------------------- C9
\* C9: with a valid header and zero data rows the run does not fail, issues no
\* lookup and no sleep, writes an empty map and prints a written count of 0 and
\* no warning.
C9_EmptyInput ==
    (ValidInput /\ N = 0) =>
        /\ pc # "error"
        /\ calls = <<>>
        /\ sleeps = 0
        /\ pc \in {"summary", "done"} => Written /\ DOMAIN outfile.map = {}
        /\ pc = "done" => Printed("Wrote") = {0} /\ Printed("Warning") = {}

C9_Witness ==
    /\ ValidInput
    /\ N = 0
    /\ pc = "done"
    /\ Written
    /\ Printed("Wrote") = {0}

\* --------------------------------------------------------------------- C10
\* C10: in the written map an Id is a key iff some row with that Id had a lookup
\* that returned a coordinate, and its value is the coordinate of the last such
\* row; a later empty result for the same Id leaves the entry alone.
C10_LastWriteWins ==
    (pc = "done") =>
        /\ Written
        /\ \A id \in Ids :
              /\ id \in DOMAIN outfile.map <=> HitsOf(id) # {}
              /\ HitsOf(id) # {} => outfile.map[id] = results[MaxOf(HitsOf(id))]

C10_Witness ==
    /\ pc = "done"
    /\ N = 3
    /\ RowIds = {"a"}
    /\ results[1] \in Coords
    /\ results[2] \in Coords
    /\ results[2] # results[1]
    /\ results[3] = NoResult
    /\ outfile.map["a"] = results[2]

====
